---- MODULE Spec2Model ----
(***************************************************************************)
(* A model of the T-HMI display driver (lib/thmi.py): the 8-bit parallel   *)
(* bus transport, window addressing, the primitive rasterizer and the      *)
(* converted-font writer.  The device is driven through a transport spy:   *)
(* every register write and every strobe of a call is appended to `trace`, *)
(* each event carrying a snapshot of the pins after the event.             *)
(***************************************************************************)
EXTENDS Integers, Sequences, FiniteSets, TLC

VARIABLES
    width,      \* self.width
    height,     \* self.height
    rotation_,  \* self._rotation
    last,       \* self.last, the last-byte cache (None before the first byte)
    out1,       \* the eight data lines, as bits of the GPIO_OUT1 register
    cs,         \* chip-select pin level (TRUE = high = deasserted)
    dc,         \* command/data pin level (TRUE = high = data)
    trace,      \* bus events of the call in progress / just returned
    call,       \* the call that produced trace: [name, args]
    ret         \* what the call returned or logged

vars == <<width, height, rotation_, last, out1, cs, dc, trace, call, ret>>

(***************************************************************************)
(* Program constants                                                       *)
(***************************************************************************)
None == -1

GPIO_OUT1_W1TC_MASK == 124800

GPIO_OUT1_W1TS_MASKS == <<
         0,  65536,  32768,  98304,    128,  65664,  32896,  98432,
       256,  65792,  33024,  98560,    384,  65920,  33152,  98688,
       512,  66048,  33280,  98816,    640,  66176,  33408,  98944,
       768,  66304,  33536,  99072,    896,  66432,  33664,  99200,
      1024,  66560,  33792,  99328,   1152,  66688,  33920,  99456,
      1280,  66816,  34048,  99584,   1408,  66944,  34176,  99712,
      1536,  67072,  34304,  99840,   1664,  67200,  34432,  99968,
      1792,  67328,  34560, 100096,   1920,  67456,  34688, 100224,
      8192,  73728,  40960, 106496,   8320,  73856,  41088, 106624,
      8448,  73984,  41216, 106752,   8576,  74112,  41344, 106880,
      8704,  74240,  41472, 107008,   8832,  74368,  41600, 107136,
      8960,  74496,  41728, 107264,   9088,  74624,  41856, 107392,
      9216,  74752,  41984, 107520,   9344,  74880,  42112, 107648,
      9472,  75008,  42240, 107776,   9600,  75136,  42368, 107904,
      9728,  75264,  42496, 108032,   9856,  75392,  42624, 108160,
      9984,  75520,  42752, 108288,  10112,  75648,  42880, 108416,
     16384,  81920,  49152, 114688,  16512,  82048,  49280, 114816,
     16640,  82176,  49408, 114944,  16768,  82304,  49536, 115072,
     16896,  82432,  49664, 115200,  17024,  82560,  49792, 115328,
     17152,  82688,  49920, 115456,  17280,  82816,  50048, 115584,
     17408,  82944,  50176, 115712,  17536,  83072,  50304, 115840,
     17664,  83200,  50432, 115968,  17792,  83328,  50560, 116096,
     17920,  83456,  50688, 116224,  18048,  83584,  50816, 116352,
     18176,  83712,  50944, 116480,  18304,  83840,  51072, 116608,
     24576,  90112,  57344, 122880,  24704,  90240,  57472, 123008,
     24832,  90368,  57600, 123136,  24960,  90496,  57728, 123264,
     25088,  90624,  57856, 123392,  25216,  90752,  57984, 123520,
     25344,  90880,  58112, 123648,  25472,  91008,  58240, 123776,
     25600,  91136,  58368, 123904,  25728,  91264,  58496, 124032,
     25856,  91392,  58624, 124160,  25984,  91520,  58752, 124288,
     26112,  91648,  58880, 124416,  26240,  91776,  59008, 124544,
     26368,  91904,  59136, 124672,  26496,  92032,  59264, 124800
>>

ST7796_SWRESET == 1
ST7796_SLPOUT == 17
ST7796_NORON == 19
ST7796_INVOFF == 32
ST7796_DISPON == 41
ST7796_CASET == 42
ST7796_RASET == 43
ST7796_RAMWR == 44
ST7796_COLMOD == 58
ST7796_MADCTL == 54

COLOR_MODE_65K == 80
COLOR_MODE_16BIT == 5

BLACK == 0
BLUE == 31
RED == 63488
WHITE == 65535

ROTATIONS == << <<240, 320>>, <<320, 240>>, <<240, 320>>, <<320, 240>> >>

MADCTLS == <<0, 96, 192, 160>>

\* data=None of _write: a value no byte sequence equals
NoData == <<None>>

(***************************************************************************)
(* Integer bit operations on naturals (Python's &, |, ^)                   *)
(***************************************************************************)
RECURSIVE BitAnd(_, _)
BitAnd(a, b) ==
    IF a = 0 \/ b = 0 THEN 0
    ELSE (a % 2) * (b % 2) + 2 * BitAnd(a \div 2, b \div 2)

RECURSIVE BitOr(_, _)
BitOr(a, b) ==
    IF a = 0 THEN b
    ELSE IF b = 0 THEN a
    ELSE (IF a % 2 = 1 \/ b % 2 = 1 THEN 1 ELSE 0) + 2 * BitOr(a \div 2, b \div 2)

\* A GPIO register is modelled by the set of its bits that are 1.
Bits(v) == {i \in 0..16 : (v \div (2 ^ i)) % 2 = 1}

\* mem32[W1TS] = m sets the pins of m; mem32[W1TC] = m clears the pins of m
W1TS(reg, m) == reg \cup m
W1TC(reg, m) == reg \ m

\* a ^ b on registers
RegXor(a, b) == (a \ b) \cup (b \ a)

(***************************************************************************)
(* Pixel codec                                                             *)
(***************************************************************************)
\* a Python value that is a number, and one that is a tuple or list of three
Number(n) == [tuple |-> FALSE, items |-> <<n>>]

Tuple(a, b, c) == [tuple |-> TRUE, items |-> <<a, b, c>>]

\* variant: green keeps five bits
color565_green_five_bits(red, green, blue) ==
    LET c == IF red.tuple THEN red.items ELSE <<red.items[1], green, blue>>
    IN BitOr(BitOr(BitAnd(c[1], 248) * 256, BitAnd(c[2], 248) * 8), c[3] \div 8)

\* the first argument is Number(red) or Tuple(red, green, blue); the try block
\* unpacks a tuple or list over all three components
color565(red, green, blue) ==
    LET c == IF red.tuple THEN red.items ELSE <<red.items[1], green, blue>>
    IN BitOr(BitOr(BitAnd(c[1], 248) * 256, BitAnd(c[2], 252) * 8), c[3] \div 8)

\* ustruct.pack(">H", v): the low 16 bits of v, high byte first
PackH(v) == << ((v % 65536) \div 256), (v % 256) >>

\* variant: the low byte first
_encode_pos_little_endian(x, y) ==
    <<x % 256, (x % 65536) \div 256, y % 256, (y % 65536) \div 256>>

_encode_pos(x, y) == PackH(x) \o PackH(y)

\* variant: the low byte first
_encode_pixel_little_endian(color) ==
    <<BitAnd(color, 255), (color \div 256) % 256>>

_encode_pixel(color) == PackH(color)

(***************************************************************************)
(* Bus transport.  A bus value is [last, out1, cs, dc, trace].  A handler  *)
(* is modelled by the sequence of transport steps it performs, in program  *)
(* order; Exec performs them on a bus.  The only branch of the driver that *)
(* reads the bus is the cache test of _write_byte, which Step evaluates.   *)
(***************************************************************************)
Ev(bus, k, b, n) ==
    [bus EXCEPT !.trace = Append(@,
        [k |-> k, b |-> b, n |-> n, out1 |-> bus.out1, cs |-> bus.cs, dc |-> bus.dc])]

\* mem32[GPIO_OUT_W1TC_REG] = MASK_CS (low) / mem32[GPIO_OUT_W1TS_REG] = MASK_CS (high)
SetCS(bus, level) == Ev([bus EXCEPT !.cs = level], "cs", None, 0)

\* mem32[GPIO_OUT_W1TC_REG] = MASK_DC (low) / mem32[GPIO_OUT_W1TS_REG] = MASK_DC (high)
SetDC(bus, level) == Ev([bus EXCEPT !.dc = level], "dc", None, 0)

\* the two register writes that put a byte's pin pattern on the data lines
\* the masks as registers
W1TS_BITS == [b \in 0..255 |-> Bits(GPIO_OUT1_W1TS_MASKS[b + 1])]
W1TC_BITS == Bits(GPIO_OUT1_W1TC_MASK)

DriveLines(bus, b) ==
    LET m == W1TS_BITS[b]
        set == W1TS(bus.out1, m)
        clr == W1TC(set, RegXor(m, W1TC_BITS))
    IN Ev([bus EXCEPT !.out1 = clr], "lines", b, 0)

\* rmt.write_pulses(PULSE, pulses): len(pulses) / 2 strobes on WR
write_pulses(bus, b, n) == Ev(bus, "strobe", b, n)

\* rmt.wait_done()
wait_done(bus) == Ev(bus, "wait_done", None, 0)

\* variant: a byte equal to the cached one is not strobed
_write_byte_cached(bus, b) ==
    IF b # bus.last
    THEN write_pulses([DriveLines(bus, b) EXCEPT !.last = b], b, 1)
    ELSE bus

_write_byte(bus, b) ==
    LET driven == IF b # bus.last
                  THEN [DriveLines(bus, b) EXCEPT !.last = b]
                  ELSE bus
    IN write_pulses(driven, b, 1)

\* transport steps
CsLow == [op |-> "cs", level |-> FALSE, b |-> None, n |-> 0]
CsHigh == [op |-> "cs", level |-> TRUE, b |-> None, n |-> 0]
DcLow == [op |-> "dc", level |-> FALSE, b |-> None, n |-> 0]
DcHigh == [op |-> "dc", level |-> TRUE, b |-> None, n |-> 0]
Byte(b) == [op |-> "_write_byte", level |-> FALSE, b |-> b, n |-> 0]
Lines(b) == [op |-> "lines", level |-> FALSE, b |-> b, n |-> 0]
Pulses(n) == [op |-> "write_pulses", level |-> FALSE, b |-> None, n |-> n]
WaitDone == [op |-> "wait_done", level |-> FALSE, b |-> None, n |-> 0]

Step(bus, s) ==
    CASE s.op = "cs" -> SetCS(bus, s.level)
      [] s.op = "dc" -> SetDC(bus, s.level)
      [] s.op = "_write_byte" -> _write_byte(bus, s.b)
      [] s.op = "lines" -> DriveLines(bus, s.b)
      [] s.op = "write_pulses" -> write_pulses(bus, None, s.n)
      [] s.op = "wait_done" -> wait_done(bus)

\* Perform steps[lo..hi] in order.  The range is halved so that the evaluation
\* stays shallow; the test on `first` only makes TLC finish the first half
\* before it starts the second (operator arguments are evaluated lazily).
RECURSIVE ExecRange(_, _, _, _)
ExecRange(bus, steps, lo, hi) ==
    IF lo > hi THEN bus
    ELSE IF lo = hi THEN Step(bus, steps[lo])
    ELSE LET mid == (lo + hi) \div 2
             first == ExecRange(bus, steps, lo, mid)
         IN IF first.cs \in BOOLEAN
            THEN ExecRange(first, steps, mid + 1, hi)
            ELSE first

Exec(bus, steps) == ExecRange(bus, steps, 1, Len(steps))

\* for b in data: self._write_byte(b)
_write_bytes(data) == [i \in 1..Len(data) |-> Byte(data[i])]

\* variant: DC is not raised before the data
_write_dc_kept(command, data) ==
    <<CsLow>>
    \o (IF command # None THEN <<DcLow, Byte(command)>> ELSE <<>>)
    \o (IF data # NoData THEN _write_bytes(data) ELSE <<>>)
    \o <<CsHigh>>

_write(command, data) ==
    <<CsLow>>
    \o (IF command # None THEN <<DcLow, Byte(command)>> ELSE <<>>)
    \o (IF data # NoData THEN <<DcHigh>> \o _write_bytes(data) ELSE <<>>)
    \o <<CsHigh>>

(***************************************************************************)
(* Window addressing and primitives: the steps of each call.               *)
(***************************************************************************)
_set_window(x0, y0, x1, y1) ==
    IF x0 <= x1 /\ x1 <= width /\ y0 <= y1 /\ y1 <= height
    THEN _write(ST7796_CASET, _encode_pos(x0, x1))
         \o _write(ST7796_RASET, _encode_pos(y0, y1))
         \o _write(ST7796_RAMWR, NoData)
    ELSE <<>>

pixel(x, y, color) ==
    _set_window(x, y, x, y) \o _write(None, _encode_pixel(color))

blit_buffer(buffer, x, y, w, h) ==
    _set_window(x, y, x + w - 1, y + h - 1) \o _write(None, buffer)

\* variant: the last pixel of the fill is not sent
fill_loop_short(n, high_byte, low_byte) ==
    [i \in 1..(IF n > 1 THEN 2 * (n - 1) ELSE 0) |->
        IF i % 2 = 1 THEN Byte(high_byte) ELSE Byte(low_byte)]

\* for _ in range(n): _write_byte(high_byte); _write_byte(low_byte)
fill_loop(n, high_byte, low_byte) ==
    [i \in 1..(IF n > 0 THEN 2 * n ELSE 0) |->
        IF i % 2 = 1 THEN Byte(high_byte) ELSE Byte(low_byte)]

\* variant: CS is not asserted for the pixel data
fill_rect_cs_high(x, y, w, h, color) ==
    LET high_byte == color \div 256
        low_byte == BitAnd(color, 255)
    IN _set_window(x, y, x + w - 1, y + h - 1)
       \o <<DcHigh>>
       \o fill_loop(w * h, high_byte, low_byte)
       \o <<CsHigh>>

fill_rect(x, y, w, h, color) ==
    LET high_byte == color \div 256
        low_byte == BitAnd(color, 255)
    IN _set_window(x, y, x + w - 1, y + h - 1)
       \o <<CsLow, DcHigh>>
       \o fill_loop(w * h, high_byte, low_byte)
       \o <<CsHigh>>

vline(x, y, length, color) == fill_rect(x, y, 1, length, color)

hline(x, y, length, color) == fill_rect(x, y, length, 1, color)

\* variant: the right edge is drawn one column further right
rect_right_edge_outside(x, y, w, h, color) ==
    hline(x, y, w, color)
    \o vline(x, y, h, color)
    \o vline(x + w, y, h, color)
    \o hline(x, y + h - 1, w, color)

rect(x, y, w, h, color) ==
    hline(x, y, w, color)
    \o vline(x, y, h, color)
    \o vline(x + w - 1, y, h, color)
    \o hline(x, y + h - 1, w, color)

\* variant: two batches for each of `height` rows, not height + 1
clear_loop_height_rows(n, npulses) ==
    [i \in 1..(IF n > 2 THEN 2 * (n - 2) ELSE 0) |->
        IF i % 2 = 1 THEN Pulses(npulses) ELSE WaitDone]

\* for _ in range(n): rmt.write_pulses(PULSE, pulses); rmt.wait_done()
clear_loop(n, npulses) ==
    [i \in 1..(IF n > 0 THEN 2 * n ELSE 0) |->
        IF i % 2 = 1 THEN Pulses(npulses) ELSE WaitDone]

\* color is <<"bool", 0 or 1>>, <<"none", 0>> or <<"int", c>>
clear(color) ==
    LET c == IF color[1] = "bool" THEN (IF color[2] = 1 THEN 255 ELSE 0)
             ELSE IF color[1] = "none" THEN 0
             ELSE BitAnd(color[2], 255)
        count == height + 1
    IN _set_window(0, 0, width, height)
       \o <<Lines(c)>>
       \o <<CsLow, DcHigh>>
       \o clear_loop(count * 2, width)
       \o <<CsHigh>>

\* variant: the sign is kept
Abs_signed(v) == v

\* abs(v)
Abs(v) == IF v < 0 THEN -v ELSE v

\* variant: the loop stops before the last column (while x0 < x1)
RECURSIVE line_loop_open_end(_, _, _, _, _, _, _, _, _, _)
line_loop_open_end(st, x0, y0, x1, err, dx, dy, ystep, steep, color) ==
    IF ~(x0 < x1) THEN st
    ELSE LET px == IF steep THEN y0 ELSE x0
             py == IF steep THEN x0 ELSE y0
             st1 == [steps |-> st.steps \o pixel(px, py, color),
                     pts |-> Append(st.pts, <<px, py>>)]
             err1 == err - dy
         IN IF err1 < 0
            THEN line_loop_open_end(st1, x0 + 1, y0 + ystep, x1, err1 + dx, dx, dy,
                                    ystep, steep, color)
            ELSE line_loop_open_end(st1, x0 + 1, y0, x1, err1, dx, dy, ystep, steep,
                                    color)

\* the while loop of line(); st is [steps, pts], pts the arguments of each pixel call
RECURSIVE line_loop(_, _, _, _, _, _, _, _, _, _)
line_loop(st, x0, y0, x1, err, dx, dy, ystep, steep, color) ==
    IF ~(x0 <= x1) THEN st
    ELSE LET px == IF steep THEN y0 ELSE x0
             py == IF steep THEN x0 ELSE y0
             st1 == [steps |-> st.steps \o pixel(px, py, color),
                     pts |-> Append(st.pts, <<px, py>>)]
             err1 == err - dy
         IN IF err1 < 0
            THEN line_loop(st1, x0 + 1, y0 + ystep, x1, err1 + dx, dx, dy, ystep, steep, color)
            ELSE line_loop(st1, x0 + 1, y0, x1, err1, dx, dy, ystep, steep, color)

line(x0, y0, x1, y1, color) ==
    LET steep == Abs(y1 - y0) > Abs(x1 - x0)
        \* after the steep swap
        sx0 == IF steep THEN y0 ELSE x0
        sy0 == IF steep THEN x0 ELSE y0
        sx1 == IF steep THEN y1 ELSE x1
        sy1 == IF steep THEN x1 ELSE y1
        \* after the endpoint swap
        swap == sx0 > sx1
        ax0 == IF swap THEN sx1 ELSE sx0
        ax1 == IF swap THEN sx0 ELSE sx1
        ay0 == IF swap THEN sy1 ELSE sy0
        ay1 == IF swap THEN sy0 ELSE sy1
        dx == ax1 - ax0
        dy == Abs(ay1 - ay0)
        err == dx \div 2
        ystep == IF ay0 < ay1 THEN 1 ELSE -1
    IN line_loop([steps |-> <<>>, pts |-> <<>>], ax0, ay0, ax1, err, dx, dy, ystep,
                 steep, color)

(***************************************************************************)
(* Converted-font writer.  A font is a record of the font module's         *)
(* HEIGHT, MAX_WIDTH, MAP, WIDTHS, OFFSETS, OFFSET_WIDTH and BITMAPS; a    *)
(* string is a sequence of characters.                                     *)
(***************************************************************************)
\* variant: the last index
index_last(MAP, character) ==
    IF \E i \in 1..Len(MAP) : MAP[i] = character
    THEN (CHOOSE i \in 1..Len(MAP) :
              /\ MAP[i] = character
              /\ \A j \in (i + 1)..Len(MAP) : MAP[j] # character) - 1
    ELSE None

\* variant: a character that is not in MAP is taken for the first glyph
index_or_first(MAP, character) ==
    IF \E i \in 1..Len(MAP) : MAP[i] = character
    THEN (CHOOSE i \in 1..Len(MAP) :
              /\ MAP[i] = character
              /\ \A j \in 1..(i - 1) : MAP[j] # character) - 1
    ELSE 0

\* font.MAP.index(character): the first index, or None for ValueError
index(MAP, character) ==
    IF \E i \in 1..Len(MAP) : MAP[i] = character
    THEN (CHOOSE i \in 1..Len(MAP) :
              /\ MAP[i] = character
              /\ \A j \in 1..(i - 1) : MAP[j] # character) - 1
    ELSE None

\* for i in range(0, buffer_needed, 2): ... bs_bit += 1
\* c is [fg_hi, fg_lo, bg_hi, bg_lo]
RECURSIVE glyph_loop(_, _, _, _, _, _)
glyph_loop(buffer, i, buffer_needed, bs_bit, BITMAPS, c) ==
    IF i >= buffer_needed THEN buffer
    ELSE LET set == BitAnd(BITMAPS[(bs_bit \div 8) + 1], 2 ^ (7 - (bs_bit % 8))) > 0
             buf1 == IF set
                     THEN [buffer EXCEPT ![i + 1] = c.fg_hi, ![i + 2] = c.fg_lo]
                     ELSE [buffer EXCEPT ![i + 1] = c.bg_hi, ![i + 2] = c.bg_lo]
         IN glyph_loop(buf1, i + 2, buffer_needed, bs_bit + 1, BITMAPS, c)

\* variant: only the last byte of an offset is read
glyph_offset_low_byte(font, char_index) ==
    font.OFFSETS[char_index * font.OFFSET_WIDTH + font.OFFSET_WIDTH]

\* the start bit of a glyph: OFFSET_WIDTH bytes of OFFSETS, big-endian
glyph_offset(font, char_index) ==
    LET offset == char_index * font.OFFSET_WIDTH
        o1 == font.OFFSETS[offset + 1]
        o2 == IF font.OFFSET_WIDTH > 1 THEN o1 * 256 + font.OFFSETS[offset + 2] ELSE o1
    IN IF font.OFFSET_WIDTH > 2 THEN o2 * 256 + font.OFFSETS[offset + 3] ELSE o2

\* variant: the cursor advances only past a glyph that was drawn
write_char_drawn_advance(st, font, character, y, c) ==
    LET char_index == index(font.MAP, character)
        entry(st1) == [ch |-> character, x0 |-> st.x, x1 |-> st1.x,
                       steps |-> SubSeq(st1.steps, Len(st.steps) + 1, Len(st1.steps))]
        done(st1) == [st1 EXCEPT !.log = Append(@, entry(st1))]
    IN IF char_index = None
       THEN done(st)
       ELSE LET char_width == font.WIDTHS[char_index + 1]
                buffer_needed == char_width * font.HEIGHT * 2
                buf1 == glyph_loop(st.buffer, 0, buffer_needed,
                                   glyph_offset(font, char_index), font.BITMAPS, c)
                to_col == st.x + char_width - 1
                to_row == y + font.HEIGHT - 1
                steps1 == IF width > to_col /\ height > to_row
                          THEN st.steps
                               \o _set_window(st.x, y, to_col, to_row)
                               \o _write(None, SubSeq(buf1, 1, buffer_needed))
                          ELSE st.steps
            IN done([st EXCEPT !.steps = steps1, !.buffer = buf1,
                               !.x = IF width > to_col /\ height > to_row
                                     THEN st.x + char_width
                                     ELSE st.x])

\* one iteration of write()'s loop; st is [steps, x, buffer, log], log holding for
\* each character the cursor before and after it and the steps it performed
write_char(st, font, character, y, c) ==
    LET char_index == index(font.MAP, character)
        entry(st1) == [ch |-> character, x0 |-> st.x, x1 |-> st1.x,
                       steps |-> SubSeq(st1.steps, Len(st.steps) + 1, Len(st1.steps))]
        done(st1) == [st1 EXCEPT !.log = Append(@, entry(st1))]
    IN IF char_index = None
       THEN done(st)
       ELSE LET char_width == font.WIDTHS[char_index + 1]
                buffer_needed == char_width * font.HEIGHT * 2
                buf1 == glyph_loop(st.buffer, 0, buffer_needed,
                                   glyph_offset(font, char_index), font.BITMAPS, c)
                to_col == st.x + char_width - 1
                to_row == y + font.HEIGHT - 1
                steps1 == IF width > to_col /\ height > to_row
                          THEN st.steps
                               \o _set_window(st.x, y, to_col, to_row)
                               \o _write(None, SubSeq(buf1, 1, buffer_needed))
                          ELSE st.steps
            IN done([st EXCEPT !.steps = steps1, !.buffer = buf1,
                               !.x = st.x + char_width])

RECURSIVE write_loop(_, _, _, _, _)
write_loop(st, font, string, y, c) ==
    IF string = <<>> THEN st
    ELSE write_loop(write_char(st, font, Head(string), y, c), font, Tail(string), y, c)

write(font, string, x, y, fg, bg) ==
    LET buffer_len == font.HEIGHT * font.MAX_WIDTH * 2
        fg_hi == BitAnd(fg, 65280) \div 256
        fg_lo == BitAnd(fg, 255)
        bg_hi == BitAnd(bg, 65280) \div 256
        bg_lo == BitAnd(bg, 255)
    IN write_loop([steps |-> <<>>, x |-> x, buffer |-> [i \in 1..buffer_len |-> 0],
                   log |-> <<>>],
                  font, string, y,
                  [fg_hi |-> fg_hi, fg_lo |-> fg_lo, bg_hi |-> bg_hi, bg_lo |-> bg_lo])

\* variant: the measurement stops at the first character that is not mapped
RECURSIVE write_width_until_unmapped(_, _)
write_width_until_unmapped(font, string) ==
    IF string = <<>> THEN 0
    ELSE LET char_index == index(font.MAP, Head(string))
         IN IF char_index = None THEN 0
            ELSE font.WIDTHS[char_index + 1]
                 + write_width_until_unmapped(font, Tail(string))

RECURSIVE write_width(_, _)
write_width(font, string) ==
    IF string = <<>> THEN 0
    ELSE LET char_index == index(font.MAP, Head(string))
         IN (IF char_index = None THEN 0 ELSE font.WIDTHS[char_index + 1])
            + write_width(font, Tail(string))

(***************************************************************************)
(* Fixed-font text.  A font is a record of the font module's WIDTH,        *)
(* HEIGHT, FIRST, LAST and FONT; a text is a sequence of code points       *)
(* (ord(char)).                                                            *)
(***************************************************************************)
\* variant: the bits of a font byte are taken least significant first
text_glyph_lsb_first(font, ch, c) ==
    LET wide == font.WIDTH \div 8
        chr_idx == (ch - font.FIRST) * (font.HEIGHT * wide)
    IN [i \in 1..(font.WIDTH * font.HEIGHT * 2) |->
          LET p == (i - 1) \div 2
              chr_data == font.FONT[chr_idx + (p \div 8) + 1] \div (2 ^ (p % 8))
              set == BitAnd(chr_data, 1) # 0
          IN IF i % 2 = 1
             THEN (IF set THEN c.fg_hi ELSE c.bg_hi)
             ELSE (IF set THEN c.fg_lo ELSE c.bg_lo)]

\* the buffer after the three decoding loops: pixel p (in the order the loops
\* visit the pixels) tests bit 0x80 of its byte shifted left p % 8 times
text_glyph(font, ch, c) ==
    LET wide == font.WIDTH \div 8
        chr_idx == (ch - font.FIRST) * (font.HEIGHT * wide)
    IN [i \in 1..(font.WIDTH * font.HEIGHT * 2) |->
          LET p == (i - 1) \div 2
              chr_data == font.FONT[chr_idx + (p \div 8) + 1] * (2 ^ (p % 8))
              set == BitAnd(chr_data, 128) # 0
          IN IF i % 2 = 1
             THEN (IF set THEN c.fg_hi ELSE c.bg_hi)
             ELSE (IF set THEN c.fg_lo ELSE c.bg_lo)]

\* variant: the cursor advances past every character of the font's range
text_char_always_advance(st, font, ch, y0, c) ==
    LET done(st1) ==
            [st1 EXCEPT !.log = Append(@,
                [ch |-> ch, x0 |-> st.x, x1 |-> st1.x,
                 steps |-> SubSeq(st1.steps, Len(st.steps) + 1, Len(st1.steps))])]
    IN IF font.FIRST <= ch /\ ch < font.LAST
       THEN IF st.x + font.WIDTH <= width /\ y0 + font.HEIGHT <= height
            THEN done([st EXCEPT
                        !.steps = st.steps
                                  \o _set_window(st.x, y0, st.x + font.WIDTH - 1,
                                                 y0 + font.HEIGHT - 1)
                                  \o _write(None, text_glyph(font, ch, c)),
                        !.x = st.x + font.WIDTH])
            ELSE done([st EXCEPT !.x = st.x + font.WIDTH])
       ELSE done(st)

\* one iteration of text()'s loop; st is [steps, x, log], log holding for each
\* character the cursor before and after it and the steps it performed
text_char(st, font, ch, y0, c) ==
    LET done(st1) ==
            [st1 EXCEPT !.log = Append(@,
                [ch |-> ch, x0 |-> st.x, x1 |-> st1.x,
                 steps |-> SubSeq(st1.steps, Len(st.steps) + 1, Len(st1.steps))])]
    IN IF /\ font.FIRST <= ch
          /\ ch < font.LAST
          /\ st.x + font.WIDTH <= width
          /\ y0 + font.HEIGHT <= height
       THEN LET buffer == text_glyph(font, ch, c)
                to_col == st.x + font.WIDTH - 1
                to_row == y0 + font.HEIGHT - 1
                steps1 == IF width > to_col /\ height > to_row
                          THEN st.steps
                               \o _set_window(st.x, y0, to_col, to_row)
                               \o _write(None, buffer)
                          ELSE st.steps
            IN done([st EXCEPT !.steps = steps1, !.x = st.x + font.WIDTH])
       ELSE done(st)

RECURSIVE text_loop(_, _, _, _, _)
text_loop(st, font, string, y0, c) ==
    IF string = <<>> THEN st
    ELSE text_loop(text_char(st, font, Head(string), y0, c), font, Tail(string), y0, c)

text(font, string, x0, y0, color, background) ==
    text_loop([steps |-> <<>>, x |-> x0, log |-> <<>>], font, string, y0,
              [fg_hi |-> color \div 256, fg_lo |-> BitAnd(color, 255),
               bg_hi |-> background \div 256, bg_lo |-> BitAnd(background, 255)])

(***************************************************************************)
(* Bitmaps.  A bitmap is a record of the bitmap module's WIDTH, HEIGHT,    *)
(* BPP, PALETTE and BITMAP.                                                *)
(***************************************************************************)
\* variant: the bits of a palette index are taken least significant first
RECURSIVE bitmap_index_lsb_first(_, _, _, _)
bitmap_index_lsb_first(bmp, bs_bit, n, color_index) ==
    IF n = 0 THEN color_index
    ELSE LET bit == IF BitAnd(bmp.BITMAP[(bs_bit \div 8) + 1],
                              2 ^ (7 - (bs_bit % 8))) > 0 THEN 1 ELSE 0
         IN bitmap_index_lsb_first(bmp, bs_bit + 1, n - 1,
                                   BitOr(color_index, bit * (2 ^ (bmp.BPP - n))))

\* the inner loop of bitmap(): n more bits are shifted into color_index
RECURSIVE bitmap_index(_, _, _, _)
bitmap_index(bmp, bs_bit, n, color_index) ==
    IF n = 0 THEN color_index
    ELSE LET bit == IF BitAnd(bmp.BITMAP[(bs_bit \div 8) + 1],
                              2 ^ (7 - (bs_bit % 8))) > 0 THEN 1 ELSE 0
         IN bitmap_index(bmp, bs_bit + 1, n - 1, BitOr(color_index * 2, bit))

\* the buffer after the outer loop: pixel p starts at bit bs_bit + p * BPP,
\* its low byte goes to buffer[i] and its high byte to buffer[i + 1]
bitmap_buffer(bmp, index_) ==
    LET bitmap_size == bmp.HEIGHT * bmp.WIDTH
        buffer_len == bitmap_size * 2
        bs_bit == IF index_ > 0 THEN bmp.BPP * bitmap_size * index_ ELSE 0
    IN [j \in 1..buffer_len |->
          LET p == (j - 1) \div 2
              color_index == bitmap_index(bmp, bs_bit + p * bmp.BPP, bmp.BPP, 0)
              color == bmp.PALETTE[color_index + 1]
          IN IF j % 2 = 0 THEN BitAnd(color, 65280) \div 256
             ELSE BitAnd(color, 255)]

\* variant: the buffer is sent without the test of the box against the screen
bitmap_unclipped(bmp, x, y, index_) ==
    LET buffer == bitmap_buffer(bmp, index_)
        to_col == x + bmp.WIDTH - 1
        to_row == y + bmp.HEIGHT - 1
    IN [buffer |-> buffer,
        steps |-> _set_window(x, y, to_col, to_row) \o _write(None, buffer)]

bitmap(bmp, x, y, index_) ==
    LET buffer == bitmap_buffer(bmp, index_)
        to_col == x + bmp.WIDTH - 1
        to_row == y + bmp.HEIGHT - 1
    IN [buffer |-> buffer,
        steps |-> IF width > to_col /\ height > to_row
                  THEN _set_window(x, y, to_col, to_row) \o _write(None, buffer)
                  ELSE <<>>]

(***************************************************************************)
(* Rotation: the fields rotation() assigns and the steps it performs.      *)
(***************************************************************************)
\* variant: the dimensions are left as they were
rotation_dimensions_kept(r) ==
    LET rot == r % 4
    IN [_rotation |-> rot, width |-> width, height |-> height,
        steps |-> _write(ST7796_MADCTL, <<MADCTLS[rot + 1]>>)]

rotation(r) ==
    LET rot == r % 4
        madctl == MADCTLS[rot + 1]
    IN [_rotation |-> rot,
        width |-> ROTATIONS[rot + 1][1],
        height |-> ROTATIONS[rot + 1][2],
        steps |-> _write(ST7796_MADCTL, <<madctl>>)]

(***************************************************************************)
(* Device                                                                  *)
(***************************************************************************)
Bus == [last |-> last, out1 |-> out1, cs |-> cs, dc |-> dc, trace |-> <<>>]

\* the steps of a call are performed on the device's transport
Commit(steps) ==
    \E after \in {Exec(Bus, steps)} :
        /\ last' = after.last
        /\ out1' = after.out1
        /\ cs' = after.cs
        /\ dc' = after.dc
        /\ trace' = after.trace

Idle == call.name = "idle"

\* THMI.__init__(rotation): the bus after the initialisation sequence
Construct(r, pins) ==
    Exec([last |-> None, out1 |-> pins, cs |-> TRUE, dc |-> TRUE, trace |-> <<>>],
         _write(ST7796_SWRESET, NoData)
         \o _write(ST7796_SLPOUT, NoData)
         \o _write(ST7796_COLMOD,
                   <<BitAnd(BitOr(COLOR_MODE_65K, COLOR_MODE_16BIT), 119)>>)
         \o _write(ST7796_MADCTL, <<MADCTLS[(r % 4) + 1]>>)
         \o _write(ST7796_INVOFF, NoData)
         \o _write(ST7796_NORON, NoData)
         \o _write(ST7796_DISPON, NoData))

Init ==
    \E r \in 0..3, pins \in {{}, W1TC_BITS} :
        LET after == Construct(r, pins)
        IN /\ rotation_ = r % 4
           /\ width = ROTATIONS[(r % 4) + 1][1]
           /\ height = ROTATIONS[(r % 4) + 1][2]
           /\ last = after.last
           /\ out1 = after.out1
           /\ cs = after.cs
           /\ dc = after.dc
           /\ trace = after.trace
           /\ call = [name |-> "__init__", args |-> <<r>>]
           /\ ret = None

\* the transport spy's log is cleared between calls
SpyReset ==
    /\ ~Idle
    /\ call' = [name |-> "idle", args |-> <<>>]
    /\ trace' = <<>>
    /\ ret' = None
    /\ UNCHANGED <<width, height, rotation_, last, out1, cs, dc>>

(***************************************************************************)
(* Inputs                                                                  *)
(***************************************************************************)
MaxSize == 2

MaxLineX == 5

MaxLineY == 2

MaxStrLen == 2

Commands == {None, ST7796_CASET, 0}

Datas == {NoData, <<>>, <<0>>, <<52>>, <<0, 0>>, <<52, 0, 0>>}

\* THMI._write(command, data)
WriteOp ==
    /\ Idle
    /\ \E command \in Commands, data \in Datas :
        /\ Commit(_write(command, data))
        /\ call' = [name |-> "_write", args |-> <<command, data>>]
    /\ ret' = None
    /\ UNCHANGED <<width, height, rotation_>>

\* THMI.rotation(rotation)
Rotation ==
    /\ Idle
    /\ \E r \in -1..5 :
        \E to \in {rotation(r)} :
           /\ rotation_' = to._rotation
           /\ width' = to.width
           /\ height' = to.height
           /\ Commit(to.steps)
           /\ call' = [name |-> "rotation", args |-> <<r>>]
    /\ ret' = None

\* THMI.clear(color)
ClearArgs == {<<"none", 0>>, <<"bool", 1>>, <<"bool", 0>>, <<"int", 4660>>}

Clear ==
    /\ Idle
    /\ \E color \in ClearArgs :
        /\ Commit(clear(color))
        /\ call' = [name |-> "clear", args |-> <<color>>]
    /\ ret' = None
    /\ UNCHANGED <<width, height, rotation_>>

\* (x0, x1) and (y0, y1) pairs around the bounds of both orientations
WinPairs == {<<0, 0>>, <<0, 239>>, <<0, 240>>, <<0, 241>>, <<1, 0>>, <<-1, 0>>,
             <<256, 300>>, <<0, 320>>, <<0, 321>>, <<300, 320>>}

\* THMI._set_window(x0, y0, x1, y1)
SetWindow ==
    /\ Idle
    /\ \E xs \in WinPairs, ys \in WinPairs :
        /\ Commit(_set_window(xs[1], ys[1], xs[2], ys[2]))
        /\ call' = [name |-> "_set_window", args |-> <<xs[1], ys[1], xs[2], ys[2]>>]
    /\ ret' = None
    /\ UNCHANGED <<width, height, rotation_>>

Coords == {-1, 0, 240, 241, 320, 321}

Colors == {RED, 4660}

\* THMI.pixel(x, y, color)
Pixel ==
    /\ Idle
    /\ \E x \in Coords, y \in Coords, color \in Colors :
        /\ Commit(pixel(x, y, color))
        /\ call' = [name |-> "pixel", args |-> <<x, y, color>>]
    /\ ret' = None
    /\ UNCHANGED <<width, height, rotation_>>

\* top left corners at the origin and at the last column and row of both orientations
Origins == {<<0, 0>>, <<239, 0>>, <<319, 0>>, <<0, 239>>, <<0, 319>>}

Sizes == 0..MaxSize

\* THMI.fill_rect(x, y, width, height, color)
FillRect ==
    /\ Idle
    /\ \E at \in Origins, w \in Sizes, h \in Sizes, color \in Colors :
        /\ Commit(fill_rect(at[1], at[2], w, h, color))
        /\ call' = [name |-> "fill_rect", args |-> <<at[1], at[2], w, h, color>>]
    /\ ret' = None
    /\ UNCHANGED <<width, height, rotation_>>

\* THMI.hline(x, y, length, color)
HLine ==
    /\ Idle
    /\ \E at \in Origins, length \in Sizes, color \in Colors :
        /\ Commit(hline(at[1], at[2], length, color))
        /\ call' = [name |-> "hline", args |-> <<at[1], at[2], length, color>>]
    /\ ret' = None
    /\ UNCHANGED <<width, height, rotation_>>

\* THMI.vline(x, y, length, color)
VLine ==
    /\ Idle
    /\ \E at \in Origins, length \in Sizes, color \in Colors :
        /\ Commit(vline(at[1], at[2], length, color))
        /\ call' = [name |-> "vline", args |-> <<at[1], at[2], length, color>>]
    /\ ret' = None
    /\ UNCHANGED <<width, height, rotation_>>

\* THMI.rect(x, y, w, h, color): sizes up to one with an interior
RectAts == {<<0, 0>>, <<239, 0>>, <<0, 319>>}

RectSizes == 0..(MaxSize + 1)

Rect ==
    /\ Idle
    /\ \E at \in RectAts, w \in RectSizes, h \in RectSizes :
        /\ Commit(rect(at[1], at[2], w, h, RED))
        /\ call' = [name |-> "rect", args |-> <<at[1], at[2], w, h, RED>>]
    /\ ret' = None
    /\ UNCHANGED <<width, height, rotation_>>

Buffers == {<<>>, <<18, 52>>, <<18, 52, 248, 0>>}

\* THMI.blit_buffer(buffer, x, y, width, height)
BlitBuffer ==
    /\ Idle
    /\ \E buffer \in Buffers, at \in Origins, w \in 1..MaxSize, h \in {1} :
        /\ Commit(blit_buffer(buffer, at[1], at[2], w, h))
        /\ call' = [name |-> "blit_buffer", args |-> <<buffer, at[1], at[2], w, h>>]
    /\ ret' = None
    /\ UNCHANGED <<width, height, rotation_>>

\* THMI.line(x0, y0, x1, y1, color)
Line ==
    /\ Idle
    /\ \E x0 \in {0, MaxLineY}, y0 \in 0..MaxLineY, x1 \in 0..MaxLineX, y1 \in 0..MaxLineY :
        \E st \in {line(x0, y0, x1, y1, RED)} :
           /\ Commit(st.steps)
           /\ ret' = st.pts
           /\ call' = [name |-> "line", args |-> <<x0, y0, x1, y1, RED>>]
    /\ UNCHANGED <<width, height, rotation_>>

\* two small converted fonts: glyphs 1, 2 and 3 pixels wide
FontA ==
    [HEIGHT |-> 2, MAX_WIDTH |-> 3, MAP |-> <<"A", "B", "C">>, WIDTHS |-> <<1, 2, 3>>,
     OFFSET_WIDTH |-> 1, OFFSETS |-> <<0, 2, 6>>, BITMAPS |-> <<154, 208>>]

\* three-byte offsets, a glyph at bit 258, and a character listed twice in MAP
FontB ==
    [HEIGHT |-> 1, MAX_WIDTH |-> 3, MAP |-> <<"C", "A", "C">>, WIDTHS |-> <<2, 1, 3>>,
     OFFSET_WIDTH |-> 3, OFFSETS |-> <<0, 1, 2, 0, 0, 3, 0, 0, 0>>,
     BITMAPS |-> [i \in 1..33 |-> IF i = 1 THEN 16 ELSE IF i = 33 THEN 32 ELSE 0]]

Fonts == {FontA, FontB}

Alphabet == {"A", "C", "?"}

Strings == UNION {[1..k -> Alphabet] : k \in 0..MaxStrLen}

\* cursors at the origin, near the last column of each orientation and near
\* the last row of the landscape orientations
WriteAts == {<<0, 0>>, <<238, 0>>, <<318, 0>>, <<0, 239>>}

\* THMI.write(font, string, x, y, fg, bg)
Write ==
    /\ Idle
    /\ \E font \in Fonts, string \in Strings, at \in WriteAts :
        \E st \in {write(font, string, at[1], at[2], RED, 4660)} :
           /\ Commit(st.steps)
           /\ ret' = [x |-> st.x, log |-> st.log]
           /\ call' = [name |-> "write", args |-> <<font, string, at[1], at[2], RED, 4660>>]
    /\ UNCHANGED <<width, height, rotation_>>

\* THMI.write_width(font, string)
WriteWidth ==
    /\ Idle
    /\ \E font \in Fonts, string \in Strings :
        /\ ret' = write_width(font, string)
        /\ call' = [name |-> "write_width", args |-> <<font, string>>]
    /\ UNCHANGED <<width, height, rotation_, last, out1, cs, dc, trace>>

\* two fixed fonts with the characters "A" and "B": 8 x 2 and 16 x 1 pixels
Font8 ==
    [WIDTH |-> 8, HEIGHT |-> 2, FIRST |-> 65, LAST |-> 67, FONT |-> <<129, 15, 170, 85>>]

Font16 ==
    [WIDTH |-> 16, HEIGHT |-> 1, FIRST |-> 65, LAST |-> 67, FONT |-> <<128, 1, 240, 15>>]

FixedFonts == {Font8, Font16}

\* the code points of "A", "B" and of "C", which is outside both fonts
CodePoints == {65, 66, 67}

Texts == UNION {[1..k -> CodePoints] : k \in 0..MaxStrLen}

\* cursors at the origin, near the last column of the portrait orientations
\* and on the last row of the landscape orientations
TextAts == {<<0, 0>>, <<232, 0>>, <<0, 239>>}

\* THMI.text(font, text, x0, y0, color, background)
Text ==
    /\ Idle
    /\ \E font \in FixedFonts, string \in Texts, at \in TextAts :
        \E st \in {text(font, string, at[1], at[2], RED, 4660)} :
           /\ Commit(st.steps)
           /\ ret' = [x |-> st.x, log |-> st.log]
           /\ call' = [name |-> "text", args |-> <<font, string, at[1], at[2], RED, 4660>>]
    /\ UNCHANGED <<width, height, rotation_>>

\* a one-bit bitmap of two 2x2 frames: frame 0 all ones, frame 1 = 0, 1, 0, 1
BmpA == [WIDTH |-> 2, HEIGHT |-> 2, BPP |-> 1, PALETTE |-> <<BLACK, WHITE>>,
         BITMAP |-> <<245>>]

\* a three-bit bitmap of two 2x1 frames with palette indexes 1, 2 and 6, 5;
\* the first index of frame 1 lies across the two bytes
BmpB == [WIDTH |-> 2, HEIGHT |-> 1, BPP |-> 3,
         PALETTE |-> <<BLACK, 4660, 22136, RED, BLUE, 39612, 48350, WHITE>>,
         BITMAP |-> <<43, 80>>]

Bitmaps == {BmpA, BmpB}

BitmapAts == {<<0, 0>>, <<238, 0>>, <<239, 0>>, <<0, 319>>}

Bitmap ==
    /\ Idle
    /\ \E bmp \in Bitmaps, at \in BitmapAts, index_ \in 0..1 :
        \E r \in {bitmap(bmp, at[1], at[2], index_)} :
           /\ Commit(r.steps)
           /\ ret' = r.buffer
           /\ call' = [name |-> "bitmap", args |-> <<bmp, at[1], at[2], index_>>]
    /\ UNCHANGED <<width, height, rotation_>>

Next ==
    \/ SpyReset
    \/ WriteOp
    \/ Rotation
    \/ Clear
    \/ SetWindow
    \/ Pixel
    \/ FillRect
    \/ HLine
    \/ VLine
    \/ Rect
    \/ BlitBuffer
    \/ Line
    \/ Write
    \/ WriteWidth
    \/ Text
    \/ Bitmap

Spec == Init /\ [][Next]_vars

(***************************************************************************)
(* The pixel codec on its own: color565 is applied to components drawn     *)
(* from 0..255, then _encode_pixel to its result.                          *)
(***************************************************************************)
Components == 0..255

ComponentSamples == {0, 4, 7, 252, 255}

ColorArgs ==
    {<<Number(a), b, c>> : a \in Components, b, c \in ComponentSamples}
    \cup {<<Number(a), b, c>> : b \in Components, a, c \in ComponentSamples}
    \cup {<<Number(a), b, c>> : c \in Components, a, b \in ComponentSamples}
    \cup {<<Number(248), 0, 0>>}
    \cup {<<Tuple(a, b, c), 0, 0>> : a, b, c \in ComponentSamples}

\* the display has been constructed; the codec's arguments are still to be
\* converted
InitColor ==
    /\ rotation_ = 0
    /\ width = ROTATIONS[1][1]
    /\ height = ROTATIONS[1][2]
    /\ \E after \in {Construct(0, {})} :
        /\ last = after.last
        /\ out1 = after.out1
        /\ cs = after.cs
        /\ dc = after.dc
    /\ trace = <<>>
    /\ ret = None
    /\ \E a \in ColorArgs : call = [name |-> "", args |-> a]

Color565 ==
    /\ call.name = ""
    /\ ret' = color565(call.args[1], call.args[2], call.args[3])
    /\ call' = [name |-> "color565", args |-> call.args]
    /\ UNCHANGED <<width, height, rotation_, last, out1, cs, dc, trace>>

EncodePixel ==
    /\ call.name = "color565"
    /\ ret' = _encode_pixel(ret)
    /\ call' = [name |-> "_encode_pixel", args |-> <<ret>>, components |-> call.args]
    /\ UNCHANGED <<width, height, rotation_, last, out1, cs, dc, trace>>

NextColor ==
    \/ Color565
    \/ EncodePixel

SpecColor == InitColor /\ [][NextColor]_vars

(***************************************************************************)
(* Properties.  A call leaves in `trace` the events of its transport and   *)
(* in `call` its name and arguments.                                       *)
(***************************************************************************)
Strobes(tr) == SelectSeq(tr, LAMBDA e : e.k = "strobe")

LineChanges(tr) == SelectSeq(tr, LAMBDA e : e.k = "lines")

Level(v) == IF v THEN 1 ELSE 0

\* what a spy on the pins sees of an event: the level CS or DC was driven to, or
\* the byte _write_byte was called with when WR was strobed
Seen(e) ==
    CASE e.k = "cs" -> <<"cs", Level(e.cs)>>
      [] e.k = "dc" -> <<"dc", Level(e.dc)>>
      [] e.k = "strobe" -> <<"strobe", e.b>>
      [] OTHER -> <<e.k, e.n>>

\* the events of a trace other than the changes of the data lines
Observed(tr) ==
    LET ev == SelectSeq(tr, LAMBDA e : e.k # "lines")
    IN [i \in 1..Len(ev) |-> Seen(ev[i])]

\* one command-or-data group: CS low, the command at command level, the data
\* at data level, CS high
Group(command, hasData, data) ==
    << <<"cs", 0>> >>
    \o (IF command # None THEN << <<"dc", 0>>, <<"strobe", command>> >> ELSE <<>>)
    \o (IF hasData
        THEN << <<"dc", 1>> >> \o [i \in 1..Len(data) |-> <<"strobe", data[i]>>]
        ELSE <<>>)
    \o << <<"cs", 1>> >>

\* C1: a _write(command, data) call strobes WR exactly
\* (1 if command is not None else 0) + len(data) times, and _write_byte(b)
\* strobes exactly once from any state of the cache, whether b is the cached
\* byte (no change of the data lines) or not.
C1_OneStrobePerByte ==
    /\ call.name = "_write" =>
        LET command == call.args[1]
            data == call.args[2]
        IN Len(Strobes(trace)) = (IF command # None THEN 1 ELSE 0)
                                 + (IF data # NoData THEN Len(data) ELSE 0)
    /\ \A b \in {0, 52, 255} \cup ({last} \ {None}) :
        LET after == _write_byte(Bus, b).trace
        IN /\ Len(Strobes(after)) = 1
           /\ after[Len(after)].k = "strobe"
           /\ Len(LineChanges(after)) = (IF b = last THEN 0 ELSE 1)

\* a _write whose command and data bytes all repeat the cached byte: three
\* strobes, at most one change of the data lines
C1_Witness ==
    /\ call.name = "_write"
    /\ call.args = <<0, <<0, 0>>>>
    /\ Len(Strobes(trace)) = 3
    /\ Len(LineChanges(trace)) < 3
    /\ last = 0

\* C2: the events of _write(command, data) are, in order: CS low; if a command
\* is present DC low and the command byte; if data is present DC high and the
\* data bytes in sequence order; CS high.  The command byte is strobed with DC
\* low and CS low, every data byte with DC high and CS low.
C2_WriteOrder ==
    call.name = "_write" =>
        LET command == call.args[1]
            data == call.args[2]
            s == Strobes(trace)
        IN /\ Observed(trace) = Group(command, data # NoData, data)
           /\ \A i \in 1..Len(s) :
                /\ s[i].cs = FALSE
                /\ s[i].dc = ~(command # None /\ i = 1)

\* a command followed by three data bytes
C2_Witness ==
    /\ call.name = "_write"
    /\ call.args = <<ST7796_CASET, <<52, 0, 0>>>>
    /\ Len(Strobes(trace)) = 4
    /\ Strobes(trace)[1].dc = FALSE
    /\ Strobes(trace)[4].dc = TRUE

\* big-endian 16-bit encoding of a pair
BigEndianPair(a, b) ==
    <<(a \div 256) % 256, a % 256, (b \div 256) % 256, b % 256>>

\* the three command groups that program a window
WindowGroups(x0, y0, x1, y1) ==
    Group(42, TRUE, BigEndianPair(x0, x1))
    \o Group(43, TRUE, BigEndianPair(y0, y1))
    \o Group(44, FALSE, <<>>)

\* C3: when x0 <= x1 <= width and y0 <= y1 <= height, _set_window(x0, y0, x1, y1)
\* sends exactly CASET (0x2A) with the bytes of x0 then x1 big-endian, RASET
\* (0x2B) with the bytes of y0 then y1 big-endian, and RAMWR (0x2C) without data.
C3_WindowCommands ==
    call.name = "_set_window" =>
        LET x0 == call.args[1]
            y0 == call.args[2]
            x1 == call.args[3]
            y1 == call.args[4]
        IN (x0 <= x1 /\ x1 <= width /\ y0 <= y1 /\ y1 <= height) =>
            Observed(trace) = WindowGroups(x0, y0, x1, y1)

\* a window whose coordinates need both bytes
C3_Witness ==
    /\ call.name = "_set_window"
    /\ call.args = <<256, 0, 300, 239>>
    /\ width = 320
    /\ Len(Strobes(trace)) = 11

\* the rectangle lies outside the device: the Window of the device is
\* 0 <= x0 <= x1 <= width and 0 <= y0 <= y1 <= height
ExceedsBounds(x0, y0, x1, y1) == x0 < 0 \/ y0 < 0 \/ x1 > width \/ y1 > height

\* C4: for every rectangle with x0 > x1 or y0 > y1 or exceeding the device
\* bounds, _set_window issues no bus command: no change of CS or DC, no strobe,
\* and the cached last byte and the data lines stay as they were.
C4_InvalidWindowSilent ==
    [][call'.name = "_set_window" =>
        LET x0 == call'.args[1]
            y0 == call'.args[2]
            x1 == call'.args[3]
            y1 == call'.args[4]
        IN (x0 > x1 \/ y0 > y1 \/ ExceedsBounds(x0, y0, x1, y1)) =>
            /\ trace' = <<>>
            /\ UNCHANGED <<last, out1, cs, dc>>]_vars

\* the command most recently strobed before event i of a trace, or None
LastCommand(tr, i) ==
    LET cmds == {j \in 1..(i - 1) : tr[j].k = "strobe" /\ ~tr[j].dc}
    IN IF cmds = {} THEN None
       ELSE tr[CHOOSE j \in cmds : \A m \in cmds : m <= j].b

\* the commands strobed before event i of a trace, in order
CommandsBefore(tr, i) ==
    LET s == Strobes(SubSeq(tr, 1, i - 1))
        c == SelectSeq(s, LAMBDA e : ~e.dc)
    IN [j \in 1..Len(c) |-> c[j].b]

\* C5: in every call of pixel, fill_rect and blit_buffer, whatever the
\* arguments, a byte of pixel data (a data byte that is not a parameter of CASET
\* or RASET) is strobed only after the same call has sent CASET, RASET and RAMWR.
C5_DataOnlyInOwnWindow ==
    call.name \in {"pixel", "fill_rect", "blit_buffer"} =>
        \A i \in 1..Len(trace) :
            (/\ trace[i].k = "strobe"
             /\ trace[i].dc
             /\ LastCommand(trace, i) \notin {42, 43}) =>
                CommandsBefore(trace, i) = <<42, 43, 44>>

\* the events of fill_rect: the window when _set_window accepts it, then in
\* one group w * h pairs of the high and the low byte of the colour
FillEvents(x, y, w, h, color) ==
    LET x1 == x + w - 1
        y1 == y + h - 1
    IN (IF x <= x1 /\ x1 <= width /\ y <= y1 /\ y1 <= height
        THEN WindowGroups(x, y, x1, y1)
        ELSE <<>>)
       \o << <<"cs", 0>>, <<"dc", 1>> >>
       \o [i \in 1..(2 * w * h) |->
             <<"strobe", IF i % 2 = 1 THEN color \div 256 ELSE color % 256>>]
       \o << <<"cs", 1>> >>

\* C6: fill_rect(x, y, w, h, color) requests the window (x, y, x+w-1, y+h-1)
\* and then strobes exactly w*h pairs (color >> 8, color & 0xFF), whatever the
\* colour; hline(x, y, length, color) leaves the trace of fill_rect with height
\* 1 and vline(x, y, length, color) that of fill_rect with width 1.
C6_FillRectTrace ==
    /\ call.name = "fill_rect" =>
        Observed(trace) = FillEvents(call.args[1], call.args[2], call.args[3],
                                     call.args[4], call.args[5])
    /\ call.name = "hline" =>
        Observed(trace) = FillEvents(call.args[1], call.args[2], call.args[3], 1,
                                     call.args[4])
    /\ call.name = "vline" =>
        Observed(trace) = FillEvents(call.args[1], call.args[2], 1, call.args[3],
                                     call.args[4])

\* a 2 x 2 fill: 11 bytes of window, then 4 pairs
C6_Witness ==
    /\ call.name = "fill_rect"
    /\ call.args = <<0, 0, 2, 2, 4660>>
    /\ Len(Strobes(trace)) = 19
    /\ Strobes(trace)[12].b = 18
    /\ Strobes(trace)[19].b = 52

\* the events of pixel(x, y, color) at a point _set_window accepts
PixelEvents(x, y, color) ==
    WindowGroups(x, y, x, y) \o Group(None, TRUE, <<color \div 256, color % 256>>)

Distance(a, b) == IF a < b THEN b - a ELSE a - b

\* The points of the integer Bresenham update in closed form.  Along the major
\* axis (y when steep) the line runs from the smaller coordinate `from` to the
\* larger; err starts at dx \div 2 and loses dy per point, so before point i
\* (counted from 0) the minor coordinate has stepped
\* ceiling((i * dy - dx \div 2) / dx) times.
BresenhamPoints(x0, y0, x1, y1) ==
    LET steep == Distance(y0, y1) > Distance(x0, x1)
        major0 == IF steep THEN y0 ELSE x0
        minor0 == IF steep THEN x0 ELSE y0
        major1 == IF steep THEN y1 ELSE x1
        minor1 == IF steep THEN x1 ELSE y1
        swap == major0 > major1
        from == IF swap THEN major1 ELSE major0
        fromMinor == IF swap THEN minor1 ELSE minor0
        toMinor == IF swap THEN minor0 ELSE minor1
        dx == Distance(major0, major1)
        dy == Distance(minor0, minor1)
        ystep == IF fromMinor < toMinor THEN 1 ELSE -1
        stepped(i) == IF dx = 0 THEN 0 ELSE (i * dy - (dx \div 2) + dx - 1) \div dx
    IN [n \in 1..(dx + 1) |->
          LET major == from + n - 1
              minor == fromMinor + ystep * stepped(n - 1)
          IN IF steep THEN <<minor, major>> ELSE <<major, minor>>]

\* C7: for every pair of endpoints of the grid, line(x0, y0, x1, y1, color)
\* calls pixel on exactly the points of the integer Bresenham update, in order,
\* and the bus carries exactly those pixels; line(0, 0, 5, 2) plots
\* (0,0), (1,0), (2,1), (3,1), (4,2), (5,2).
C7_LinePoints ==
    call.name = "line" =>
        LET pts == BresenhamPoints(call.args[1], call.args[2], call.args[3],
                                   call.args[4])
            color == call.args[5]
            per == Len(PixelEvents(0, 0, color))
            seen == Observed(trace)
        IN /\ ret = pts
           /\ Len(seen) = per * Len(pts)
           /\ \A n \in 1..Len(pts) :
                SubSeq(seen, per * (n - 1) + 1, per * n)
                    = PixelEvents(pts[n][1], pts[n][2], color)
           /\ (call.args[1] = 0 /\ call.args[2] = 0
               /\ call.args[3] = 5 /\ call.args[4] = 2) =>
                ret = << <<0, 0>>, <<1, 0>>, <<2, 1>>, <<3, 1>>, <<4, 2>>, <<5, 2>> >>

\* the documented example: six pixels, 13 bytes each
C7_Witness ==
    /\ call.name = "line"
    /\ call.args = <<0, 0, 5, 2, RED>>
    /\ Len(ret) = 6
    /\ ret[3] = <<2, 1>>
    /\ Len(Strobes(trace)) = 78

Mapped(font, ch) == \E i \in 1..Len(font.MAP) : font.MAP[i] = ch

\* the indices of MAP at which a character occurs for the first time
FirstOccurrences(font) ==
    {i \in 1..Len(font.MAP) : \A j \in 1..(i - 1) : font.MAP[j] # font.MAP[i]}

Occurrences(string, ch) == Cardinality({k \in 1..Len(string) : string[k] = ch})

RECURSIVE WidthOver(_, _, _)
WidthOver(font, string, I) ==
    IF I = {} THEN 0
    ELSE LET i == CHOOSE m \in I : TRUE
         IN font.WIDTHS[i] * Occurrences(string, font.MAP[i])
            + WidthOver(font, string, I \ {i})

\* the sum of WIDTHS over the characters of the string that occur in MAP, each
\* with the width at its first occurrence in MAP
StringWidth(font, string) == WidthOver(font, string, FirstOccurrences(font))

\* C8: write_width(font, s) returns the sum of font.WIDTHS[i] over the
\* characters of s that occur in font.MAP, i the index of the first occurrence;
\* 0 for the empty string and for a string of unmapped characters only; the call
\* produces no bus event and changes no state of the device.
C8_WriteWidth ==
    [][call'.name = "write_width" =>
        LET font == call'.args[1]
            string == call'.args[2]
        IN /\ ret' = StringWidth(font, string)
           /\ (\A k \in 1..Len(string) : ~Mapped(font, string[k])) => ret' = 0
           /\ trace' = <<>>
           /\ UNCHANGED <<width, height, rotation_, last, out1, cs, dc>>]_vars

\* "C" is listed twice in the MAP of FontB, with widths 2 and 3; "?" is not listed
C8_Witness ==
    /\ call.name = "write_width"
    /\ call.args = <<FontB, <<"C", "?">>>>
    /\ ret = 2

\* the string without the characters that are not in MAP
MappedOnly(font, string) == SelectSeq(string, LAMBDA ch : Mapped(font, ch))

\* C9: in write(font, string, x, y, fg, bg) a character that is not in font.MAP
\* is skipped: it produces no bus event and does not move the cursor, and the
\* characters after it are rendered as if it were not there.
C9_UnmappedSkipped ==
    call.name = "write" =>
        LET font == call.args[1]
            string == call.args[2]
            log == ret.log
            rest == write(font, MappedOnly(font, string), call.args[3], call.args[4],
                          call.args[5], call.args[6])
        IN /\ Len(log) = Len(string)
           /\ \A k \in 1..Len(string) :
                /\ log[k].ch = string[k]
                /\ log[k].x0 = (IF k = 1 THEN call.args[3] ELSE log[k - 1].x1)
                /\ ~Mapped(font, string[k]) =>
                    /\ log[k].steps = <<>>
                    /\ log[k].x1 = log[k].x0
           /\ ret.x = rest.x
           /\ Observed(trace) = Observed(Exec(Bus, rest.steps).trace)

\* an unmapped character before a glyph that is drawn
C9_Witness ==
    /\ call.name = "write"
    /\ call.args[1] = FontA
    /\ call.args[2] = <<"?", "A">>
    /\ call.args[3] = 0
    /\ call.args[4] = 0
    /\ ret.log[1].steps = <<>>
    /\ ret.log[2].steps # <<>>
    /\ ret.x = 1
    /\ trace # <<>>

\* the (x0, x1) pairs of the CASET commands of a trace, in order
ColumnWindows(tr) ==
    LET s == Strobes(tr)
        at == SelectSeq([j \in 1..Len(s) |-> j], LAMBDA j : ~s[j].dc /\ s[j].b = 42)
    IN [n \in 1..Len(at) |->
          <<s[at[n] + 1].b * 256 + s[at[n] + 2].b,
            s[at[n] + 3].b * 256 + s[at[n] + 4].b>>]

\* C10: in write(font, string, x, y, fg, bg) a mapped glyph whose box exceeds
\* the screen at the cursor (x + char_width - 1 >= width or
\* y + HEIGHT - 1 >= height) is not sent, with no bus event, and the cursor
\* advances by the glyph's width exactly as for a glyph that is drawn.
C10_ClippedGlyphAdvances ==
    call.name = "write" =>
        LET font == call.args[1]
            string == call.args[2]
            x == call.args[3]
            y == call.args[4]
            log == ret.log
            w(k) == font.WIDTHS[CHOOSE i \in FirstOccurrences(font) :
                                    font.MAP[i] = string[k]]
            cursor(k) == x + StringWidth(font, SubSeq(string, 1, k - 1))
            clipped(k) == \/ cursor(k) + w(k) - 1 >= width
                          \/ y + font.HEIGHT - 1 >= height
            drawn == SelectSeq([k \in 1..Len(string) |-> k],
                               LAMBDA k : Mapped(font, string[k]) /\ ~clipped(k))
        IN /\ \A k \in 1..Len(string) :
                Mapped(font, string[k]) =>
                    /\ log[k].x0 = cursor(k)
                    /\ log[k].x1 = cursor(k) + w(k)
                    /\ (log[k].steps = <<>>) <=> clipped(k)
           /\ ret.x = x + StringWidth(font, string)
           /\ ColumnWindows(trace)
                = [n \in 1..Len(drawn) |->
                     <<cursor(drawn[n]), cursor(drawn[n]) + w(drawn[n]) - 1>>]
           /\ Len(SelectSeq(trace, LAMBDA e : e.k = "cs" /\ ~e.cs)) = 4 * Len(drawn)

\* a glyph drawn in the last columns, then one that no longer fits
C10_Witness ==
    /\ call.name = "write"
    /\ width = 240
    /\ call.args[1] = FontA
    /\ call.args[2] = <<"A", "C">>
    /\ call.args[3] = 238
    /\ call.args[4] = 0
    /\ ret.log[1].steps # <<>>
    /\ ret.log[2].steps = <<>>
    /\ ret.log[2].x1 = 242
    /\ ret.x = 242

InRange(font, ch) == font.FIRST <= ch /\ ch < font.LAST

\* the characters of a text that are in the font's range
InRangeCount(font, string) ==
    Cardinality({k \in 1..Len(string) : InRange(font, string[k])})

\* C11 (as stated): in text(font, text, x0, y0, ...) a glyph that would fall
\* off screen at the cursor produces no bus event and the cursor still advances
\* by font.WIDTH, so that after k in-range characters the cursor is
\* x0 + k * WIDTH whether or not each was drawn.
C11_TextCursorAlwaysAdvances ==
    call.name = "text" =>
        LET font == call.args[1]
            string == call.args[2]
            log == ret.log
        IN /\ \A k \in 1..Len(string) :
                InRange(font, string[k]) =>
                    /\ log[k].x1 = log[k].x0 + font.WIDTH
                    /\ (\/ log[k].x0 + font.WIDTH > width
                        \/ call.args[4] + font.HEIGHT > height) => log[k].steps = <<>>
           /\ ret.x = call.args[3] + font.WIDTH * InRangeCount(font, string)

\* C11 (amended): in text(font, text, x0, y0, ...) a glyph that would fall off
\* screen at the cursor (x + WIDTH > width or y0 + HEIGHT > height) produces no
\* bus event and leaves the cursor where it is; a glyph that fits is sent and
\* advances the cursor by WIDTH.  The cursor after the call is x0 + WIDTH times
\* the number of glyphs drawn, and the n-th glyph drawn is sent to the columns
\* x0 + (n-1) * WIDTH .. x0 + n * WIDTH - 1.
C11_TextDroppedGlyphStays ==
    call.name = "text" =>
        LET font == call.args[1]
            string == call.args[2]
            x0 == call.args[3]
            y0 == call.args[4]
            log == ret.log
            off(x) == x + font.WIDTH > width \/ y0 + font.HEIGHT > height
            drawn == Cardinality({j \in 1..InRangeCount(font, string) :
                                     ~off(x0 + (j - 1) * font.WIDTH)})
        IN /\ Len(log) = Len(string)
           /\ \A k \in 1..Len(string) :
                /\ log[k].x0 = (IF k = 1 THEN x0 ELSE log[k - 1].x1)
                /\ InRange(font, string[k]) =>
                    IF off(log[k].x0)
                    THEN log[k].steps = <<>> /\ log[k].x1 = log[k].x0
                    ELSE log[k].steps # <<>> /\ log[k].x1 = log[k].x0 + font.WIDTH
           /\ ret.x = x0 + font.WIDTH * drawn
           /\ ColumnWindows(trace)
                = [n \in 1..drawn |->
                     <<x0 + (n - 1) * font.WIDTH, x0 + n * font.WIDTH - 1>>]

\* two characters of the font at the last eight columns: the first is drawn,
\* the second is dropped and the cursor stays at 240
C11_Witness ==
    /\ call.name = "text"
    /\ width = 240
    /\ call.args[1] = Font8
    /\ call.args[2] = <<65, 66>>
    /\ call.args[3] = 232
    /\ call.args[4] = 0
    /\ ret.log[1].steps # <<>>
    /\ ret.log[2].steps = <<>>
    /\ ret.log[2].x1 = 240
    /\ ret.x = 240

\* bit n of a bitmap's bit stream, counted from the most significant bit of
\* its first byte
StreamBit(bmp, n) == (bmp.BITMAP[(n \div 8) + 1] \div (2 ^ (7 - (n % 8)))) % 2

RECURSIVE MsbFirst(_, _, _)
MsbFirst(bmp, from, n) ==
    IF n = 0 THEN 0
    ELSE 2 * MsbFirst(bmp, from, n - 1) + StreamBit(bmp, from + n - 1)

\* the palette index of pixel p (row-major, from 0) of frame `index`
PaletteIndex(bmp, index_, p) ==
    MsbFirst(bmp, index_ * bmp.BPP * bmp.WIDTH * bmp.HEIGHT + p * bmp.BPP, bmp.BPP)

BytesOf(color) == {color \div 256, color % 256}

\* C12: bitmap(bitmap, x, y, index) reads frame `index` from bit offset
\* index * BPP * WIDTH * HEIGHT, takes each palette index from BPP consecutive
\* bits, most significant first and across byte boundaries, and fills a buffer
\* of WIDTH * HEIGHT * 2 bytes whose pixel p (row-major) holds the two bytes of
\* PALETTE[index of p]; a one-bit 2x2 frame of ones with PALETTE = [black,
\* white] gives four white pixels.
C12_BitmapDecoding ==
    call.name = "bitmap" =>
        LET bmp == call.args[1]
            index_ == call.args[4]
            size == bmp.WIDTH * bmp.HEIGHT
        IN /\ Len(ret) = size * 2
           /\ \A p \in 0..(size - 1) :
                /\ PaletteIndex(bmp, index_, p) \in 0..(Len(bmp.PALETTE) - 1)
                /\ {ret[2 * p + 1], ret[2 * p + 2]}
                     = BytesOf(bmp.PALETTE[PaletteIndex(bmp, index_, p) + 1])
           /\ (bmp = BmpA /\ index_ = 0) => ret = <<255, 255, 255, 255, 255, 255, 255, 255>>

\* frame 1 of the three-bit bitmap: its first index (6) lies across the two
\* bytes of the stream, its second is 5
C12_Witness ==
    /\ call.name = "bitmap"
    /\ call.args[1] = BmpB
    /\ call.args[4] = 1
    /\ PaletteIndex(BmpB, 1, 0) = 6
    /\ PaletteIndex(BmpB, 1, 1) = 5
    /\ {ret[1], ret[2]} = BytesOf(48350)
    /\ {ret[3], ret[4]} = BytesOf(39612)
    /\ trace # <<>>

\* C13: bitmap() sends the window (x, y, x + WIDTH - 1, y + HEIGHT - 1) and
\* then the whole buffer as one data write when the box fits the screen
\* (x + WIDTH - 1 < width and y + HEIGHT - 1 < height); otherwise the draw is
\* skipped: no command, no data, no strobe.
C13_BitmapClipping ==
    call.name = "bitmap" =>
        LET bmp == call.args[1]
            x == call.args[2]
            y == call.args[3]
            to_col == x + bmp.WIDTH - 1
            to_row == y + bmp.HEIGHT - 1
        IN IF to_col < width /\ to_row < height
           THEN /\ Observed(trace) = WindowGroups(x, y, to_col, to_row)
                                     \o Group(None, TRUE, ret)
                /\ Len(Strobes(trace)) = 11 + Len(ret)
           ELSE trace = <<>>

\* a 2x2 bitmap at the last column of a 240 wide screen: its box ends at
\* column 240, and nothing is sent
C13_Witness ==
    /\ call.name = "bitmap"
    /\ call.args = <<BmpA, 239, 0, 0>>
    /\ width = 240
    /\ ret = <<255, 255, 255, 255, 255, 255, 255, 255>>
    /\ trace = <<>>

\* the red, green and blue that a color565 call converts
ComponentsOf(args) ==
    IF args[1].tuple THEN args[1].items ELSE <<args[1].items[1], args[2], args[3]>>

\* C14: for red, green, blue in 0..255, color565 returns
\* (red & 0xF8) << 8 | (green & 0xFC) << 3 | (blue >> 3): the top five bits of
\* red, the top six of green and the top five of blue side by side, a value in
\* 0..0xFFFF; color565(255, 255, 255) = 0xFFFF, color565(0, 0, 0) = 0 and
\* color565(248, 0, 0) = 0xF800.
C14_Color565 ==
    call.name = "color565" =>
        LET c == ComponentsOf(call.args)
        IN /\ ret = (c[1] \div 8) * 2048 + (c[2] \div 4) * 32 + (c[3] \div 8)
           /\ ret \in 0..65535
           /\ c = <<255, 255, 255>> => ret = 65535
           /\ c = <<0, 0, 0>> => ret = 0
           /\ c = <<248, 0, 0>> => ret = 63488

\* color565(248, 0, 0) has returned 0xF800
C14_Witness ==
    /\ call.name = "color565"
    /\ call.args = <<Number(248), 0, 0>>
    /\ ret = 63488

\* C15: with c = color565(r, g, b), the components decoded from the high and
\* low byte of _encode_pixel(c) are (r & 0xF8, g & 0xFC, b & 0xF8), and
\* color565 of the decoded components is c again.
C15_RoundTrip ==
    call.name = "_encode_pixel" =>
        LET c == ComponentsOf(call.components)
            hi == ret[1]
            lo == ret[2]
            red == (hi \div 8) * 8
            green == (hi % 8) * 32 + (lo \div 32) * 4
            blue == (lo % 32) * 8
        IN /\ Len(ret) = 2
           /\ red = c[1] - (c[1] % 8)
           /\ green = c[2] - (c[2] % 4)
           /\ blue = c[3] - (c[3] % 8)
           /\ color565(Number(red), green, blue) = call.args[1]

\* components that lose their low bits: (255, 7, 252) encodes to 0xF83F,
\* which decodes to (248, 4, 248)
C15_Witness ==
    /\ call.name = "_encode_pixel"
    /\ call.components = <<Number(255), 7, 252>>
    /\ call.args = <<63551>>
    /\ ret = <<248, 63>>

\* the byte clear() puts on the data lines for its argument
ClearByte(color) ==
    CASE color[1] = "bool" -> IF color[2] = 1 THEN 255 ELSE 0
      [] color[1] = "none" -> 0
      [] OTHER -> color[2] % 256

\* n batches of a pulse train and the wait for its end, as a spy sees them
Batches(n) ==
    [i \in 1..(2 * n) |-> IF i % 2 = 1 THEN <<"strobe", None>> ELSE <<"wait_done", 0>>]

\* the position of the last change of the data lines in a trace, 0 if none
LastLineChange(tr) ==
    IF \E i \in 1..Len(tr) : tr[i].k = "lines"
    THEN CHOOSE i \in 1..Len(tr) :
            /\ tr[i].k = "lines"
            /\ \A j \in (i + 1)..Len(tr) : tr[j].k # "lines"
    ELSE 0

\* C16: clear(color) programs the window (0, 0, width, height), then drives
\* the data lines once with the normalized byte (True -> 0xFF, False and None
\* -> 0, an int -> color & 0xFF), then asserts CS with DC at data level and
\* sends exactly 2 * (height + 1) pulse trains of `width` strobes each, waiting
\* for the end of every train, and deasserts CS at the end.
C16_ClearTrace ==
    call.name = "clear" =>
        LET b == ClearByte(call.args[1])
            i == LastLineChange(trace)
            pulses == SelectSeq(trace, LAMBDA e : e.k = "strobe" /\ e.b = None)
        IN /\ Observed(trace) = WindowGroups(0, 0, width, height)
                                \o << <<"cs", 0>>, <<"dc", 1>> >>
                                \o Batches(2 * (height + 1))
                                \o << <<"cs", 1>> >>
           /\ i > 1
           /\ trace[i].b = b
           /\ trace[i].out1 = W1TS_BITS[b]
           /\ trace[i - 1].k = "cs" /\ trace[i - 1].cs = TRUE
           /\ trace[i + 1].k = "cs" /\ trace[i + 1].cs = FALSE
           /\ Len(pulses) = 2 * (height + 1)
           /\ \A j \in 1..Len(pulses) :
                /\ pulses[j].n = width
                /\ pulses[j].cs = FALSE
                /\ pulses[j].dc = TRUE
                /\ pulses[j].out1 = W1TS_BITS[b]
           /\ cs = TRUE

\* clear(0x1234) in portrait: 642 trains of 240 strobes with 0x34 on the lines
C16_Witness ==
    /\ call.name = "clear"
    /\ call.args = << <<"int", 4660>> >>
    /\ width = 240
    /\ height = 320
    /\ Len(SelectSeq(trace, LAMBDA e : e.k = "strobe" /\ e.b = None /\ e.n = 240)) = 642
    /\ out1 = W1TS_BITS[52]
    /\ cs = TRUE

\* C17: after construction and after any sequence of rotation(r) calls,
\* _rotation is in 0..3 and (width, height) = ROTATIONS[_rotation];
\* rotation(r) sends MADCTL (0x36) with the single data byte rotations[r mod 4];
\* rotation(r) and rotation(r + 4) leave the same state, from every state in
\* which a call can start.
C17_Rotation ==
    /\ rotation_ \in 0..3
    /\ <<width, height>> = ROTATIONS[rotation_ + 1]
    /\ call.name = "rotation" =>
        /\ rotation_ = call.args[1] % 4
        /\ Observed(trace) = Group(54, TRUE, <<MADCTLS[(call.args[1] % 4) + 1]>>)
    /\ Idle =>
        \A r \in -1..5 :
            \E a \in {rotation(r)}, b \in {rotation(r + 4)} :
                /\ a._rotation = b._rotation
                /\ a.width = b.width
                /\ a.height = b.height
                /\ Exec(Bus, a.steps) = Exec(Bus, b.steps)

\* rotation(5) has made the display landscape and sent MADCTL 0x60
C17_Witness ==
    /\ call.name = "rotation"
    /\ call.args = <<5>>
    /\ rotation_ = 1
    /\ <<width, height>> = <<320, 240>>
    /\ Len(Strobes(trace)) = 2
    /\ Strobes(trace)[2].b = 96

\* C18: in every state reachable through the public operations, if the cached
\* byte `last` is not None then it is the byte on the data lines, so that every
\* strobe of _write_byte(b) latches b: those of the call that has just
\* returned, and the one a _write_byte(b) would perform next.
C18_CacheSound ==
    /\ last # None => out1 = W1TS_BITS[last]
    /\ \A i \in 1..Len(trace) :
        (trace[i].k = "strobe" /\ trace[i].b # None) => trace[i].out1 = W1TS_BITS[trace[i].b]
    /\ \A b \in {0, 44, 255} :
        LET after == _write_byte(Bus, b).trace
        IN after[Len(after)].out1 = W1TS_BITS[b]

\* the (first, second) pairs sent as the payload of each `command` strobe
WindowPayloads(tr, command) ==
    LET s == Strobes(tr)
        at == SelectSeq([j \in 1..Len(s) |-> j], LAMBDA j : ~s[j].dc /\ s[j].b = command)
    IN [n \in 1..Len(at) |->
          <<s[at[n] + 1].b * 256 + s[at[n] + 2].b,
            s[at[n] + 3].b * 256 + s[at[n] + 4].b>>]

DrawingCalls ==
    {"pixel", "fill_rect", "hline", "vline", "blit_buffer", "line", "clear",
     "write", "text", "bitmap"}

\* C19: every window a public drawing operation sends is valid, whatever its
\* integer arguments: each CASET payload has 0 <= x0 <= x1 <= width and each
\* RASET payload has 0 <= y0 <= y1 <= height.
C19_WindowsValid ==
    call.name \in DrawingCalls =>
        LET cols == WindowPayloads(trace, 42)
            rows == WindowPayloads(trace, 43)
        IN /\ \A n \in 1..Len(cols) :
                0 <= cols[n][1] /\ cols[n][1] <= cols[n][2] /\ cols[n][2] <= width
           /\ \A n \in 1..Len(rows) :
                0 <= rows[n][1] /\ rows[n][1] <= rows[n][2] /\ rows[n][2] <= height

\* C20: CS brackets all traffic: every strobe of WR, those of the fill_rect
\* and clear paths included, happens while CS is asserted (low), and CS is
\* deasserted (high) whenever a public operation has returned.
C20_CsBrackets ==
    /\ cs = TRUE
    /\ \A i \in 1..Len(trace) :
        trace[i].k = "strobe" => trace[i].cs = FALSE
    /\ trace # <<>> => trace[Len(trace)].k = "cs"

\* a fill_rect of two pixels has returned: eleven strobes of the window and
\* four of the data, all under CS
C20_Witness ==
    /\ call.name = "fill_rect"
    /\ call.args = <<0, 0, 2, 1, RED>>
    /\ Len(Strobes(trace)) = 15
    /\ \A i \in 1..Len(trace) : trace[i].k = "strobe" => trace[i].cs = FALSE
    /\ cs = TRUE

\* the bytes of a fixed-font glyph: pixel (row r, column c) is fg if bit
\* 7 - (c mod 8) of FONT[(ch - FIRST) * HEIGHT * (WIDTH / 8) + r * (WIDTH / 8)
\* + c div 8] is set and bg otherwise, high byte first
GlyphBytes(font, ch, fg, bg) ==
    [i \in 1..(font.WIDTH * font.HEIGHT * 2) |->
        LET p == (i - 1) \div 2
            r == p \div font.WIDTH
            c == p % font.WIDTH
            byte == font.FONT[(ch - font.FIRST) * font.HEIGHT * (font.WIDTH \div 8)
                              + r * (font.WIDTH \div 8) + (c \div 8) + 1]
            color == IF (byte \div (2 ^ (7 - (c % 8)))) % 2 = 1 THEN fg ELSE bg
        IN IF i % 2 = 1 THEN color \div 256 ELSE color % 256]

\* what a spy sees of text() from character k of the string on, the cursor
\* being at x
RECURSIVE TextEvents(_, _, _, _, _, _, _)
TextEvents(font, string, k, x, y0, fg, bg) ==
    IF k > Len(string) THEN <<>>
    ELSE IF /\ InRange(font, string[k])
            /\ x + font.WIDTH <= width
            /\ y0 + font.HEIGHT <= height
         THEN WindowGroups(x, y0, x + font.WIDTH - 1, y0 + font.HEIGHT - 1)
              \o Group(None, TRUE, GlyphBytes(font, string[k], fg, bg))
              \o TextEvents(font, string, k + 1, x + font.WIDTH, y0, fg, bg)
         ELSE TextEvents(font, string, k + 1, x, y0, fg, bg)

\* C21: text(font, text, x0, y0, fg, bg) skips, with no bus traffic and no
\* cursor advance, every character whose code point is outside [FIRST, LAST)
\* or whose glyph box does not satisfy x0 + WIDTH <= width and
\* y0 + HEIGHT <= height; for every other character it programs the window
\* (x0, y0, x0 + WIDTH - 1, y0 + HEIGHT - 1), streams exactly
\* WIDTH * HEIGHT * 2 bytes, fg or bg for each pixel as the bit of FONT for its
\* row and column says, high byte first, and advances x0 by WIDTH.
C21_TextGlyphs ==
    call.name = "text" =>
        \E font \in {call.args[1]}, string \in {call.args[2]}, log \in {ret.log} :
            LET y0 == call.args[4]
                fits(x) == x + font.WIDTH <= width /\ y0 + font.HEIGHT <= height
            IN /\ Len(log) = Len(string)
               /\ \A k \in 1..Len(string) :
                    /\ log[k].x0 = (IF k = 1 THEN call.args[3] ELSE log[k - 1].x1)
                    /\ IF InRange(font, string[k]) /\ fits(log[k].x0)
                       THEN /\ log[k].x1 = log[k].x0 + font.WIDTH
                            /\ Len(SelectSeq(log[k].steps, LAMBDA s : s.op = "_write_byte"))
                                 = 11 + font.WIDTH * font.HEIGHT * 2
                       ELSE /\ log[k].x1 = log[k].x0
                            /\ log[k].steps = <<>>
               /\ ret.x = (IF string = <<>> THEN call.args[3] ELSE log[Len(log)].x1)
               /\ Observed(trace)
                    = TextEvents(font, string, 1, call.args[3], y0, call.args[5], call.args[6])

\* "C" is outside the font and skipped, "B" is then drawn at the start column
\* with its own bits: 0xAA and 0x55 give alternating fg and bg pixels
C21_Witness ==
    /\ call.name = "text"
    /\ call.args[1] = Font8
    /\ call.args[2] = <<67, 66>>
    /\ call.args[3] = 0
    /\ call.args[4] = 0
    /\ ret.log[1].steps = <<>>
    /\ ret.log[1].x1 = 0
    /\ ret.log[2].x1 = 8
    /\ Len(Strobes(trace)) = 11 + 32
    /\ Strobes(trace)[12].b = RED \div 256
    /\ Strobes(trace)[14].b = 4660 \div 256
    /\ ret.x = 8

\* the big-endian value of the OFFSET_WIDTH bytes of OFFSETS for entry i (from 0)
OffsetOf(font, i) ==
    LET ow == font.OFFSET_WIDTH
        RECURSIVE value(_)
        value(n) == IF n = 0 THEN 0
                    ELSE value(n - 1) * 256 + font.OFFSETS[i * ow + n]
    IN value(ow)

\* the bytes of a converted-font glyph: pixel k is fg if bit offset + k of
\* BITMAPS, counted from the most significant bit of its first byte, is set
WriteGlyphBytes(font, i, fg, bg) ==
    [j \in 1..(font.WIDTHS[i + 1] * font.HEIGHT * 2) |->
        LET n == OffsetOf(font, i) + ((j - 1) \div 2)
            bit == (font.BITMAPS[(n \div 8) + 1] \div (2 ^ (7 - (n % 8)))) % 2
            color == IF bit = 1 THEN fg ELSE bg
        IN IF j % 2 = 1 THEN color \div 256 ELSE color % 256]

\* the first position (from 0) of a character in MAP; the character is mapped
FirstIn(map, ch) == (CHOOSE i \in 1..Len(map) :
                        map[i] = ch /\ \A j \in 1..(i - 1) : map[j] # ch) - 1

\* what a spy sees of write() from character k of the string on, the cursor
\* being at x
RECURSIVE WriteEvents(_, _, _, _, _, _, _)
WriteEvents(font, string, k, x, y, fg, bg) ==
    IF k > Len(string) THEN <<>>
    ELSE IF ~Mapped(font, string[k])
         THEN WriteEvents(font, string, k + 1, x, y, fg, bg)
         ELSE LET i == FirstIn(font.MAP, string[k])
                  w == font.WIDTHS[i + 1]
              IN (IF x + w - 1 < width /\ y + font.HEIGHT - 1 < height
                  THEN WindowGroups(x, y, x + w - 1, y + font.HEIGHT - 1)
                       \o Group(None, TRUE, WriteGlyphBytes(font, i, fg, bg))
                  ELSE <<>>)
                 \o WriteEvents(font, string, k + 1, x + w, y, fg, bg)

\* C22: for every mapped character drawn by write(), the start bit is the
\* big-endian value of the OFFSET_WIDTH (1 to 3) bytes of its entry of OFFSETS,
\* and the data streamed is exactly char_width * HEIGHT * 2 bytes, pixel k being
\* fg (high byte, low byte) if bit offset + k of BITMAPS, counted most
\* significant first and across byte boundaries, is set and bg otherwise; no
\* byte that an earlier, wider glyph left in the shared buffer is streamed.
C22_WriteGlyphs ==
    call.name = "write" =>
        \E font \in {call.args[1]}, string \in {call.args[2]} :
            /\ Observed(trace)
                 = WriteEvents(font, string, 1, call.args[3], call.args[4],
                               call.args[5], call.args[6])
            /\ \A k \in 1..Len(string) :
                 ret.log[k].steps # <<>> =>
                    Len(SelectSeq(ret.log[k].steps, LAMBDA s : s.op = "_write_byte"))
                      = 11 + font.WIDTHS[FirstIn(font.MAP, string[k]) + 1] * font.HEIGHT * 2

\* "C" of the font with three-byte offsets starts at bit 258 (fg, bg); the
\* narrower "A" after it streams its own two bytes only
C22_Witness ==
    /\ call.name = "write"
    /\ call.args = <<FontB, <<"C", "A">>, 0, 0, RED, 4660>>
    /\ OffsetOf(FontB, 0) = 258
    /\ Len(Strobes(trace)) = 28
    /\ [i \in 1..4 |-> Strobes(trace)[11 + i].b] = <<248, 0, 18, 52>>
    /\ [i \in 1..2 |-> Strobes(trace)[26 + i].b] = <<248, 0>>

\* the positions in a string of its mapped characters that fit the screen
\* when a write() starting at (x, y) reaches them
DrawnAt(font, string, x, y) ==
    SelectSeq([k \in 1..Len(string) |-> k],
              LAMBDA k :
                /\ Mapped(font, string[k])
                /\ x + write_width(font, SubSeq(string, 1, k)) - 1 < width
                /\ y + font.HEIGHT - 1 < height)

\* C23: measurement mirrors rendering: for every font, string and start (x, y)
\* the total cursor advance of write(font, string, x, y) is
\* write_width(font, string), and each mapped character is blitted, when it is
\* on screen, at column x + write_width(font, the string before it).
C23_MeasureMirrorsRender ==
    call.name = "write" =>
        \E font \in {call.args[1]}, string \in {call.args[2]}, x \in {call.args[3]} :
            /\ ret.x - x = write_width(font, string)
            /\ \A k \in 1..Len(string) :
                 ret.log[k].x0 = x + write_width(font, SubSeq(string, 1, k - 1))
            /\ \E at \in {DrawnAt(font, string, x, call.args[4])} :
                 ColumnWindows(trace)
                   = [n \in 1..Len(at) |->
                        <<x + write_width(font, SubSeq(string, 1, at[n] - 1)),
                          x + write_width(font, SubSeq(string, 1, at[n])) - 1>>]

\* an unmapped character, then "C": it is blitted at the start column and the
\* advance is its width, 3, as write_width measures
C23_Witness ==
    /\ call.name = "write"
    /\ call.args = <<FontA, <<"?", "C">>, 0, 0, RED, 4660>>
    /\ write_width(FontA, <<"?", "C">>) = 3
    /\ ret.x = 3
    /\ ColumnWindows(trace) = << <<0, 2>> >>

\* C24: line(x0, y0, x1, y1, color) terminates after calling pixel exactly
\* max(|x1 - x0|, |y1 - y0|) + 1 times; both endpoints are among the points
\* plotted, consecutive points differ by at most 1 in each coordinate, and
\* line(x1, y1, x0, y0) plots the same sequence of points.
C24_LineShape ==
    call.name = "line" =>
        \E x0 \in {call.args[1]}, y0 \in {call.args[2]},
           x1 \in {call.args[3]}, y1 \in {call.args[4]} :
            LET n == (IF Distance(x0, x1) > Distance(y0, y1)
                      THEN Distance(x0, x1) ELSE Distance(y0, y1)) + 1
            IN /\ Len(ret) = n
               /\ Len(ColumnWindows(trace)) = n
               /\ \E i \in 1..n : ret[i] = <<x0, y0>>
               /\ \E i \in 1..n : ret[i] = <<x1, y1>>
               /\ \A i \in 1..(n - 1) :
                    /\ Distance(ret[i][1], ret[i + 1][1]) <= 1
                    /\ Distance(ret[i][2], ret[i + 1][2]) <= 1
               /\ line(x1, y1, x0, y0, call.args[5]).pts = ret

\* a steep line drawn from its lower end: three points from (1, 0) to (2, 2)
C24_Witness ==
    /\ call.name = "line"
    /\ call.args = <<2, 2, 1, 0, RED>>
    /\ Len(ret) = 3
    /\ ret[1] = <<1, 0>>
    /\ ret[3] = <<2, 2>>
    /\ line(1, 0, 2, 2, RED).pts = ret

\* the bytes of the data strobes of a trace
DataBytes(tr) ==
    LET s == SelectSeq(tr, LAMBDA e : e.k = "strobe" /\ e.dc /\ e.b # None)
    IN [i \in 1..Len(s) |-> s[i].b]

\* C25: all drawing paths put a color on the bus in the same byte order: for a
\* palette color c, bitmap() streams for each pixel the byte c >> 8 followed by
\* c & 0xFF, the same two bytes in the same order that pixel(x, y, c) and
\* fill_rect stream for the color c.
C25_SameByteOrder ==
    /\ call.name = "bitmap" =>
        \E bmp \in {call.args[1]} :
            \A p \in 0..(bmp.WIDTH * bmp.HEIGHT - 1) :
                LET c == bmp.PALETTE[PaletteIndex(bmp, call.args[4], p) + 1]
                IN /\ <<ret[2 * p + 1], ret[2 * p + 2]>> = <<c \div 256, c % 256>>
                   /\ <<ret[2 * p + 1], ret[2 * p + 2]>>
                        = DataBytes(Exec(Bus, _write(None, _encode_pixel(c))).trace)
    /\ call.name = "pixel" =>
        \E d \in {DataBytes(trace)} :
            SubSeq(d, Len(d) - 1, Len(d)) = <<call.args[3] \div 256, call.args[3] % 256>>
    /\ (call.name = "fill_rect" /\ call.args[3] * call.args[4] > 0) =>
        \E d \in {DataBytes(trace)} :
            SubSeq(d, Len(d) - 1, Len(d)) = <<call.args[5] \div 256, call.args[5] % 256>>

\* the trace of rect(x, y, w, h, color) is that of the four edges in the order
\* top, left, right, bottom, with 2 * (2 * w + 2 * h) pixel bytes after the
\* eleven bytes of each window programmed
RectFourEdges(x, y, w, h, color) ==
    /\ Observed(trace) = FillEvents(x, y, w, 1, color)
                         \o FillEvents(x, y, 1, h, color)
                         \o FillEvents(x + w - 1, y, 1, h, color)
                         \o FillEvents(x, y + h - 1, w, 1, color)
    /\ Len(WindowPayloads(trace, 42)) = Len(WindowPayloads(trace, 43))
    /\ Len(Strobes(trace)) = 11 * Len(WindowPayloads(trace, 42)) + 2 * (2 * w + 2 * h)

\* every cell of every window programmed lies in the rectangle
\* (x, y, x + w - 1, y + h - 1), on its first or last column or row
RectOnBorder(x, y, w, h) ==
    \E cols \in {WindowPayloads(trace, 42)}, rows \in {WindowPayloads(trace, 43)} :
        \A n \in 1..Len(cols) :
            \A cx \in cols[n][1]..cols[n][2], cy \in rows[n][1]..rows[n][2] :
                /\ x <= cx /\ cx <= x + w - 1
                /\ y <= cy /\ cy <= y + h - 1
                /\ cx \in {x, x + w - 1} \/ cy \in {y, y + h - 1}

=============================================================================
